---- MODULE Spec2Model ----
(***************************************************************************)
(* The semantic indexing and search core of traybin (src/src/indexer.rs):  *)
(* one indexing thread (start_indexing -> download_models -> run_indexing  *)
(* -> index_batch -> insert_embeddings), the search and remove entry       *)
(* points, the `images` table of the store and the screenshot directory.   *)
(***************************************************************************)
EXTENDS Integers, Sequences, FiniteSets, TLC

(* ------------------------------ bounds --------------------------------- *)
\* Plain image files that may be in the screenshot directory: names 1..MaxFiles.
MaxFiles == 17
\* Calls and file events in one behaviour: start_indexing, search_images and
\* remove_from_index calls, file creations and deletions.
MaxCalls == 3
\* Largest `limit` a search is called with.
MaxLimit == 2

(* --------------------------- program constants ------------------------- *)
\* CpuMode::batch_size
BatchSizeNormal == 8
BatchSizeFast == 32
\* CpuMode::delay_ms
DelayMsNormal == 25
DelayMsFast == 0

IMAGE_EXTENSIONS == {"png", "jpg", "jpeg", "gif", "bmp", "webp", "avif"}

\* The schema of the `images` table.
create_schema == {"file_path", "file_size", "modified_time", "vector"}

batch_size(mode) == IF mode = "Normal" THEN BatchSizeNormal ELSE BatchSizeFast

delay_ms(mode) == IF mode = "Normal" THEN DelayMsNormal ELSE DelayMsFast

(* ------------------------------ paths ---------------------------------- *)
\* A path of the corpus: a file name (a number), its extension, and whether
\* the name is valid Unicode (Path::to_str is None when it is not).
ExtOf(n) == IF n % 3 = 1 THEN "png" ELSE IF n % 3 = 2 THEN "JPG" ELSE "webp"

PlainFile(n) == [name |-> n, ext |-> ExtOf(n), utf8 |-> TRUE]

\* An image whose file name is not valid Unicode; it sorts first.
BadNameFile == [name |-> 0, ext |-> "png", utf8 |-> FALSE]

\* A file that is no image.
TextFile == [name |-> -1, ext |-> "txt", utf8 |-> TRUE]

\* A file with an image extension that the image model cannot decode; it
\* sorts last.
CorruptFile == [name |-> MaxFiles + 1, ext |-> "png", utf8 |-> TRUE]

AllPaths ==
    {PlainFile(n) : n \in 1..MaxFiles} \cup {BadNameFile, TextFile, CorruptFile}

\* config.screenshot_dir, and the one subdirectory screenshots are filed in.
ScreenshotDir == [name |-> -3, ext |-> "dir", utf8 |-> TRUE]

\* The subdirectory; its entry sorts where its one file would.
SubDir == [name |-> MaxFiles, ext |-> "dir", utf8 |-> TRUE]

\* The directory a file is in: the file named MaxFiles is in the
\* subdirectory, every other file directly in config.screenshot_dir.
ParentOf(p) == IF p.name = MaxFiles THEN SubDir ELSE ScreenshotDir

\* The files that are deleted while the program runs.
Volatile == {BadNameFile, PlainFile(1)}

\* The screenshot that is written while the program runs, and that the
\* application asks to remove from the index.
Screenshots == {PlainFile(1)}

\* u8::to_ascii_lowercase over the extensions of the corpus.
ToAsciiLower(ext) == IF ext = "JPG" THEN "jpg" ELSE ext

eq_ignore_ascii_case(a, b) == ToAsciiLower(a) = ToAsciiLower(b)

\* Path::to_str: the path as a string, None for a name that is not Unicode.
ToStr(p) ==
    IF p.utf8 THEN [some |-> TRUE, name |-> p.name, ext |-> p.ext]
    ELSE [some |-> FALSE, name |-> 0, ext |-> ""]

\* The String inside Some(..).
Unwrap(o) == [name |-> o.name, ext |-> o.ext]

\* PathBuf::from(&str): a path built from a string is valid Unicode.
PathBufFrom(s) == [name |-> s.name, ext |-> s.ext, utf8 |-> TRUE]

\* chunk[0].file_name().and_then(to_str).unwrap_or("unknown")
FileNameLabel(p) ==
    IF p.utf8 THEN [name |-> p.name, ext |-> p.ext]
    ELSE [name |-> -2, ext |-> "unknown"]

(* ---------------------------- embeddings ------------------------------- *)
\* The vector the image model returns for the file with path string s.
ImageVector(s) == s.name

\* The vector the text model returns for a query.
TextVector(q) == q

Queries == {2}

(* --------------------------- sequence helpers -------------------------- *)
Min(a, b) == IF a < b THEN a ELSE b

Range(s) == {s[i] : i \in 1..Len(s)}

RECURSIVE FilterMapToStr(_)
\* chunk.iter().filter_map(|p| p.to_str().map(..)).collect()
FilterMapToStr(chunk) ==
    IF chunk = <<>> THEN <<>>
    ELSE IF ToStr(Head(chunk)).some
         THEN <<Unwrap(ToStr(Head(chunk)))>> \o FilterMapToStr(Tail(chunk))
         ELSE FilterMapToStr(Tail(chunk))

\* files.chunks(batch_size): the chunk with index idx (0-based).
Chunk(files, bs, idx) ==
    SubSeq(files, idx * bs + 1, Min((idx + 1) * bs, Len(files)))

NumChunks(files, bs) == (Len(files) + bs - 1) \div bs

RECURSIVE SortedAsc(_)
\* The paths of a set in ascending name order.
SortedAsc(S) ==
    IF S = {} THEN <<>>
    ELSE LET m == CHOOSE p \in S : \A q \in S : p.name <= q.name
         IN <<m>> \o SortedAsc(S \ {m})

Reverse(s) == [i \in 1..Len(s) |-> s[Len(s) + 1 - i]]

(* ------------------------------- state --------------------------------- *)
VARIABLES
    disk,           \* the files that exist in config.screenshot_dir
    tableExists,    \* db.table_names() contains "images"
    rows,           \* the rows of the `images` table, in insertion order
    pc,             \* where the indexing thread is
    force_all,      \* start_indexing's force_all
    cpu_mode,       \* config.cpu_mode
    dir_order,      \* the order read_dir yields the entries in: "asc" or "desc"
    db_path,        \* config.db_path: "utf8", or "other" when it is not Unicode
    image_model,    \* IndexerState.image_model: "none", "prewarmed", "loaded"
    indexed_files,  \* IndexerState.indexed_files
    files,          \* run_indexing's worklist
    chunk_idx,      \* index_batch's chunk_idx
    indexed_count,  \* run_indexing's indexed_count
    embeddings,     \* index_batch's embeddings, between embed and insert
    events,         \* the AppMessages the current run has sent, in order
    results,        \* the last search_images call since the run ended: what it
                    \* sent, how far it got, the limit and the ranked rows of
                    \* its extraction loop
    calls,          \* how many calls and file events the behaviour has made
    fsChanged,      \* a file was created or deleted since the last scan
    removed,        \* paths whose row a completed remove_from_index was to delete
    removal,        \* the last remove_from_index call since the run ended: what
                    \* it returned and sent, what it found and what it left
                    \* of the rows
    counted,        \* the last get_indexed_count call: what it returned, the
                    \* fault it met and the store it found
    handles,        \* the application's model handles: the prewarmed ones,
                    \* the instances loaded so far, the lock of each and
                    \* the tasks that embed with them
    app,            \* the application's auto-indexing: self.indexing, its
                    \* message channel and the runs add_screenshot started
    racers,         \* the private state of indexing runs that share the store
    prev,           \* how the previous run ended; its rows, when it wrote to
                    \* another store
    hist            \* what the current run has done (history)

vars == <<disk, dir_order, db_path, tableExists, rows, pc, force_all, cpu_mode, image_model,
          indexed_files, files, chunk_idx, indexed_count, embeddings, events,
          results, calls, fsChanged, removed, removal, counted, handles, app, racers, prev, hist>>

storeVars == <<tableExists, rows>>
runVars == <<pc, force_all, image_model, indexed_files, files,
             chunk_idx, indexed_count, embeddings, events>>

Msg(tag, cur, tot, label) == [tag |-> tag, cur |-> cur, total |-> tot, label |-> label]

NoLabel == [name |-> -3, ext |-> ""]

NoBatch ==
    [requested |-> <<>>, returned |-> 0, inserted |-> <<>>, done |-> FALSE,
     existed |-> FALSE, before |-> <<>>]

NoHist ==
    [rows0 |-> <<>>, appended |-> 0, expected |-> 0, scanned |-> FALSE,
     fsAtScan |-> FALSE, embedCalls |-> 0, embedFail |-> FALSE,
     dropped |-> FALSE, skipped |-> FALSE, insertErr |-> FALSE,
     failRows |-> <<>>, failCount |-> 0, failCalls |-> 0, batch |-> NoBatch,
     prewarmed |-> FALSE, model |-> "none", readErr |-> FALSE, lost |-> FALSE]

\* No search_images call yet.
NoResults ==
    [called |-> FALSE, sent |-> FALSE, msgs |-> <<>>, paths |-> <<>>,
     kind |-> "ok", listed |-> FALSE, exists |-> FALSE, looped |-> FALSE,
     limit |-> 0, ranked |-> <<>>, disk |-> {}, rowPaths |-> {}, removed |-> {},
     healed |-> FALSE, kept |-> TRUE]

\* No remove_from_index call yet.
NoRemoval ==
    [called |-> FALSE, kind |-> "ok", faulted |-> FALSE, healed |-> FALSE,
     exists |-> FALSE, present |-> FALSE, sent |-> FALSE, kept |-> TRUE,
     othersKept |-> TRUE]

\* No get_indexed_count call yet.
NoCount ==
    [called |-> FALSE, kind |-> "ok", count |-> 0, fault |-> "none",
     failed |-> FALSE, exists |-> FALSE, rows |-> <<>>]

NoPrev ==
    [valid |-> FALSE, force_all |-> FALSE, n |-> 0, total |-> 0,
     rows |-> <<>>, clean |-> FALSE]

\* The corpus at start: the first n plain files, the text file, and possibly
\* the image with the non-Unicode name.
Corpus(n, bad) ==
    {PlainFile(i) : i \in 1..n} \cup {TextFile} \cup (IF bad THEN {BadNameFile} ELSE {})

\* The sizes the corpus starts with.
CorpusSizes == {0, 1, MaxFiles}

(* ------------------------ the embedding model handles ------------------ *)
\* The threads that embed: the indexing threads start_indexing spawns and the
\* search threads of the application's search handler.
Runs == {"run1", "run2"}
Searches == {"search1", "search2"}
Tasks == Runs \cup Searches

\* An instance a thread can load: the prewarm thread's, or one of its own.
MaxInstances == 1 + Cardinality(Tasks)
Instances == 1..MaxInstances

\* A thread before its request: no model, at no step, given no handle, and
\* no acquisition message sent.
NoTask == [pc |-> "idle", model |-> 0, supplied |-> "none", msgs |-> <<>>]

\* The application as constructed: both statics None, no model loaded, every
\* Mutex unlocked, the prewarm thread not spawned.
NoHandles ==
    [vision |-> 0, text |-> 0, warm |-> "over", images |-> 0, texts |-> 0,
     imageLock |-> [i \in Instances |-> "free"],
     textLock |-> [i \in Instances |-> "free"],
     task |-> [t \in Tasks |-> NoTask]]

(* ----------------------- the application's auto-indexing -------------- *)
\* NewScreenshot messages the file watcher sends in one behaviour.
MaxShots == 3

\* The application as constructed: not indexing, nothing on the channel, no
\* run started.
NoApp ==
    [indexing |-> FALSE, inbox |-> <<>>, shots |-> 0,
     run |-> [i \in 1..MaxShots |-> "idle"]]

\* A run before start_indexing: IndexerState::new.
NoRacer ==
    [pc |-> "idle", indexed_files |-> {}, files |-> <<>>, chunk_idx |-> 0,
     indexed_count |-> 0, embeddings |-> <<>>, names |-> FALSE,
     events |-> <<>>, failed |-> FALSE]

NoRacers == [t \in Runs |-> NoRacer]

\* The configurations the program starts in: both modes over the large
\* corpus (a small one is a single batch in either mode), both read_dir
\* orders where the directory ever holds two images, and a db_path that is
\* not Unicode over the smallest corpora (no store call gets past it).
InitConfig(n, bad, mode, order, path) ==
    /\ n < MaxFiles => mode = "Normal"
    /\ (n < MaxFiles /\ ~bad) => order = "asc"
    /\ path = "other" => n = 0 /\ order = "asc"

Init ==
    /\ \E n \in CorpusSizes, bad \in BOOLEAN : disk = Corpus(n, bad)
    /\ dir_order \in {"asc", "desc"}
    /\ db_path \in {"utf8", "other"}
    /\ cpu_mode \in {"Normal", "Fast"}
    /\ InitConfig(Cardinality(disk \cap {PlainFile(i) : i \in 1..MaxFiles}),
                  BadNameFile \in disk, cpu_mode, dir_order, db_path)
    /\ tableExists = FALSE
    /\ rows = <<>>
    /\ pc = "idle"
    /\ force_all = FALSE
    /\ image_model = "none"
    /\ indexed_files = {}
    /\ files = <<>>
    /\ chunk_idx = 0
    /\ indexed_count = 0
    /\ embeddings = <<>>
    /\ events = <<>>
    /\ results = NoResults
    /\ calls = 0
    /\ fsChanged = FALSE
    /\ removed = {}
    /\ removal = NoRemoval
    /\ counted = NoCount
    /\ handles = NoHandles
    /\ app = NoApp
    /\ racers = NoRacers
    /\ prev = NoPrev
    /\ hist = NoHist

(* --------------------------- the environment --------------------------- *)
\* A screenshot is written to the directory.
CreateFile(p) ==
    /\ calls < MaxCalls
    /\ p \notin disk
    /\ disk' = disk \cup {p}
    /\ calls' = calls + 1
    /\ fsChanged' = TRUE
    /\ UNCHANGED <<dir_order, db_path, cpu_mode, storeVars, runVars, results, removed, removal, counted, handles, app, racers, prev, hist>>

\* A file of the directory is deleted.
DeleteFile(p) ==
    /\ calls < MaxCalls
    /\ p \in disk
    /\ disk' = disk \ {p}
    /\ calls' = calls + 1
    /\ fsChanged' = TRUE
    /\ UNCHANGED <<dir_order, db_path, cpu_mode, storeVars, runVars, results, removed, removal, counted, handles, app, racers, prev, hist>>

(* ------------------------------ the store ------------------------------ *)
\* One row of the `images` table (create_schema's columns).
Row(s, v) == [file_path |-> s, file_size |-> 1, modified_time |-> 0, vector |-> v]

RowPaths(rs) == {rs[i].file_path : i \in 1..Len(rs)}

\* table.delete("<column> = '<value>'"): an error when the table has no such
\* column, otherwise the rows that do not match stay.
TableDelete(rs, column, value) ==
    IF column \notin create_schema
    THEN [ok |-> FALSE, rows |-> rs]
    ELSE [ok |-> TRUE, rows |-> SelectSeq(rs, LAMBDA r : r[column] # value)]

Dist(a, b) == IF a < b THEN b - a ELSE a - b

RECURSIVE InsertByDist(_, _, _)
\* r put into a ranked list behind every row that is at most as far from q.
InsertByDist(ranked, r, q) ==
    IF ranked = <<>> THEN <<r>>
    ELSE IF Dist(Head(ranked).vector, q) <= Dist(r.vector, q)
         THEN <<Head(ranked)>> \o InsertByDist(Tail(ranked), r, q)
         ELSE <<r>> \o ranked

RECURSIVE NearestTo(_, _)
\* table.query().nearest_to(q): the rows by ascending distance to q, rows at
\* the same distance in insertion order.
NearestTo(rs, q) ==
    IF rs = <<>> THEN <<>>
    ELSE InsertByDist(NearestTo(SubSeq(rs, 1, Len(rs) - 1), q), rs[Len(rs)], q)

\* What can go wrong in one open_or_create_db call: "open", the parent
\* directory cannot be created; "connect", the connection fails, the store
\* directory is removed and the second connection succeeds; "remove", the
\* connection fails and the directory cannot be removed; "recreate", the
\* connection fails, the directory is removed and the second connection
\* fails too.
OpenFaults == {"none", "open", "connect", "remove", "recreate"}

\* The outcome of open_or_create_db: Ok, Err or panic, whether
\* lancedb::connect was attempted and failed, and the store it leaves.
Opened(kind, failed, exists, rs) ==
    [kind |-> kind, failed |-> failed, exists |-> exists, rows |-> rs]

\* Faulty variant of OnConnectOk: the store is recreated on every call.
OnConnectOkFresh(exists, rs) == Opened("ok", FALSE, FALSE, <<>>)

\* open_or_create_db's Ok(db) arm: the store is handed out as it is.
OnConnectOk(exists, rs) == Opened("ok", FALSE, exists, rs)

\* open_or_create_db: Err when the parent directory cannot be created;
\* db_path.to_str().unwrap() panics for a path that is not Unicode; a failed
\* connection removes the store directory and connects again.
open_or_create_db(path, fault, exists, rs) ==
    IF fault = "open" THEN Opened("err", FALSE, exists, rs)
    ELSE IF path # "utf8" THEN Opened("panic", FALSE, exists, rs)
    ELSE IF fault = "connect" THEN Opened("ok", TRUE, FALSE, <<>>)
    ELSE IF fault = "remove" THEN Opened("err", TRUE, exists, rs)
    ELSE IF fault = "recreate" THEN Opened("err", TRUE, FALSE, <<>>)
    ELSE OnConnectOk(exists, rs)

(* ------------------------- the indexing thread ------------------------- *)
models_ready(m) == m # "none"

\* Path::is_dir: the screenshot directory, and the subdirectory while it
\* holds a file.
is_dir(p, d) ==
    \/ p = ScreenshotDir
    \/ p = SubDir /\ \E q \in d : ParentOf(q) = SubDir

\* fs::read_dir(dir): the entries of dir, files and directories, in the order
\* the file system yields them.
ReadDir(dir, d, order) ==
    LET here == {p \in d : ParentOf(p) = dir}
        dirs == IF dir = ScreenshotDir /\ is_dir(SubDir, d) THEN {SubDir} ELSE {}
        asc == SortedAsc(here \cup dirs)
    IN IF order = "desc" THEN Reverse(asc) ELSE asc

\* Path::is_file and the extension test.
is_image_file(p, d) ==
    /\ p \in d
    /\ \E e \in IMAGE_EXTENSIONS : eq_ignore_ascii_case(e, p.ext)

\* Faulty variant of load_indexed_files: the table is never read.
load_indexed_files_unread(indexed, exists, rs) == indexed

\* The set load_indexed_files leaves in indexed_files.
load_indexed_files(indexed, exists, rs) ==
    IF ~exists THEN indexed
    ELSE indexed \cup {PathBufFrom(rs[i].file_path) : i \in 1..Len(rs)}

RECURSIVE visit_dirs(_, _, _, _, _)
RECURSIVE VisitEntries(_, _, _, _, _)
\* The loop of visit_dirs over the entries read_dir yielded: a directory is
\* visited recursively, an image file is pushed unless it is to be skipped.
VisitEntries(entries, d, order, should_check, indexed_set) ==
    IF entries = <<>> THEN <<>>
    ELSE LET path == Head(entries)
             pushed ==
                 IF is_dir(path, d)
                 THEN visit_dirs(path, d, order, should_check, indexed_set)
                 ELSE IF is_image_file(path, d)
                         /\ (~should_check \/ path \notin indexed_set)
                      THEN <<path>>
                      ELSE <<>>
         IN pushed \o VisitEntries(Tail(entries), d, order, should_check, indexed_set)

\* Faulty variant of visit_dirs: the indexed set is not consulted.
visit_dirs_undiffed(dir, d, order, should_check, indexed_set) ==
    IF is_dir(dir, d)
    THEN VisitEntries(ReadDir(dir, d, order), d, order, FALSE, {})
    ELSE <<>>

\* Faulty variant of visit_dirs: subdirectories are not entered.
visit_dirs_flat(dir, d, order, should_check, indexed_set) ==
    SelectSeq(ReadDir(dir, d, order), LAMBDA p :
        /\ ~is_dir(p, d) /\ is_image_file(p, d)
        /\ (~should_check \/ p \notin indexed_set))

\* visit_dirs(dir, files, should_check, indexed_set): the paths it pushes.
visit_dirs(dir, d, order, should_check, indexed_set) ==
    IF is_dir(dir, d)
    THEN VisitEntries(ReadDir(dir, d, order), d, order, should_check, indexed_set)
    ELSE <<>>

RECURSIVE VisitFails(_, _, _)
\* visit_dirs returns Err: fs::read_dir(dir)? fails for dir, or the recursive
\* visit_dirs(..)? fails for a directory among its entries.
VisitFails(dir, d, unreadable) ==
    /\ is_dir(dir, d)
    /\ \/ dir \in unreadable
       \/ \E e \in Range(ReadDir(dir, d, "asc")) :
              is_dir(e, d) /\ VisitFails(e, d, unreadable)

collect_files_to_index(d, order, fa, indexed) ==
    visit_dirs(ScreenshotDir, d, order, ~fa, indexed)

RECURSIVE ZipRows(_, _, _)
\* insert_embeddings' loop: the (path, embedding) pairs whose metadata reads.
ZipRows(paths, embs, d) ==
    IF paths = <<>> \/ embs = <<>> THEN <<>>
    ELSE IF Head(paths) \in d
         THEN <<Row(Unwrap(ToStr(Head(paths))), Head(embs))>>
              \o ZipRows(Tail(paths), Tail(embs), d)
         ELSE ZipRows(Tail(paths), Tail(embs), d)

\* insert_embeddings up to the store call: an error on a length mismatch, a
\* panic when to_str().unwrap() meets a readable path that is not Unicode.
insert_embeddings(paths, embs, d) ==
    IF Len(paths) # Len(embs) THEN [kind |-> "err", rows |-> <<>>]
    ELSE IF \E i \in 1..Len(paths) : paths[i] \in d /\ ~ToStr(paths[i]).some
         THEN [kind |-> "panic", rows |-> <<>>]
         ELSE [kind |-> "ok", rows |-> ZipRows(paths, embs, d)]

\* num_inserted == embeddings.len().min(chunk.len())
num_inserted(embs, chunk) == Min(Len(embs), Len(chunk))

Send(m) == events' = Append(events, m)

ThreadOver == pc \in {"idle", "done", "panicked"}

LastIs(tag) == events # <<>> /\ events[Len(events)].tag = tag

\* Every file of the worklist was embedded and inserted.
AllSucceeded ==
    ~hist.embedFail /\ ~hist.dropped /\ ~hist.skipped /\ ~hist.insertErr

\* How the run that is over ended; it counts as a first run when no call
\* removed the store after it.
RunSummary ==
    [valid |-> pc = "done" /\ hist.scanned /\ LastIs("IndexCompleted") /\ ~hist.lost,
     force_all |-> force_all, n |-> indexed_count, total |-> Len(files),
     rows |-> <<>>, clean |-> AllSucceeded]

\* Faulty variant of AfterStart: the models are loaded whatever is supplied.
AfterStartDownload(vision, text) == "download"

\* Faulty variant of AfterStart: a prewarmed vision handle alone is enough.
AfterStartVisionOnly(vision, text) == IF vision THEN "run" ELSE "download"

\* Where the thread goes first: to run_indexing with both prewarmed handles,
\* to download_models when the new IndexerState has no models.
AfterStart(vision, text) ==
    IF vision /\ text THEN "run"
    ELSE IF ~models_ready("none") THEN "download" ELSE "run"

start_indexing(fa, vision, text) ==
    /\ ThreadOver
    /\ calls < MaxCalls
    /\ calls' = calls + 1
    /\ force_all' = fa
    /\ image_model' = IF vision /\ text THEN "prewarmed" ELSE "none"
    /\ pc' = AfterStart(vision, text)
    /\ indexed_files' = {}
    /\ files' = <<>>
    /\ chunk_idx' = 0
    /\ indexed_count' = 0
    /\ embeddings' = <<>>
    /\ events' = <<>>
    /\ prev' = RunSummary
    /\ hist' = [NoHist EXCEPT !.prewarmed = vision /\ text]
    /\ results' = NoResults
    /\ removal' = NoRemoval
    /\ UNCHANGED <<disk, dir_order, db_path, cpu_mode, storeVars, fsChanged, removed, counted, handles, app, racers>>

\* Faulty variant of FirstIndexMsg: IndexStarted also for an empty worklist.
FirstIndexMsgStarted(total) == Msg("IndexStarted", 0, total, NoLabel)

\* Faulty variant of AddCount: the count of the batch replaces the running count.
AddCountAssign(count, n) == n

\* Faulty variant of OnEmbedErr: the loop goes on embedding.
OnEmbedErrContinue == "embed"

\* run_indexing's first message: IndexCompleted(0) for an empty worklist,
\* IndexStarted(total) otherwise.
FirstIndexMsg(total) ==
    IF total = 0 THEN Msg("IndexCompleted", 0, 0, NoLabel)
    ELSE Msg("IndexStarted", 0, total, NoLabel)

\* Faulty variant of AddCount: the batch is counted twice.
AddCountTwice(count, n) == count + 2 * n

\* *indexed_count += num_inserted
AddCount(count, n) == count + n

\* Where index_batch goes when the embedding fails: `??` leaves the loop.
OnEmbedErr == "finish"

ModelProgress(i) == Msg("ModelDownloadProgress", i, 2, NoLabel)

\* download_models in its blocking task, and start_indexing's match on it. A
\* model that fails to load and a task that fails to join both end the call
\* with ModelDownloadFailed, after the progress messages sent until then.
\* Faulty variant of DownloadMsgs: the text model is loaded unannounced.
DownloadMsgsNoText(outcome) ==
    IF outcome = "ok"
    THEN <<ModelProgress(1), Msg("ModelDownloadCompleted", 0, 0, NoLabel)>>
    ELSE <<ModelProgress(1), Msg("ModelDownloadFailed", 0, 0, NoLabel)>>

\* The messages of the acquisition: download_models' own, and start_indexing's
\* ModelDownloadFailed when the vision or the text model fails.
DownloadMsgs(outcome) ==
    IF outcome = "ok"
    THEN <<ModelProgress(1), ModelProgress(2),
           Msg("ModelDownloadCompleted", 0, 0, NoLabel)>>
    ELSE IF outcome = "vision"
    THEN <<ModelProgress(1), Msg("ModelDownloadFailed", 0, 0, NoLabel)>>
    ELSE <<ModelProgress(1), ModelProgress(2),
           Msg("ModelDownloadFailed", 0, 0, NoLabel)>>

\* Faulty variant of AfterDownloadFail: the run goes on without models.
AfterDownloadFailRun == "run"

\* start_indexing returns after ModelDownloadFailed.
AfterDownloadFail == "done"

download_models(outcome) ==
    /\ pc = "download"
    /\ events' = events \o DownloadMsgs(outcome)
    /\ image_model' = IF outcome = "ok" THEN "loaded" ELSE image_model
    /\ pc' = IF outcome = "ok" THEN "run" ELSE AfterDownloadFail
    /\ UNCHANGED <<disk, dir_order, db_path, storeVars, force_all, cpu_mode, indexed_files, files,
                   chunk_idx, indexed_count, embeddings, results, calls, fsChanged, removed, removal, counted, handles, app, racers, prev, hist>>

\* run_indexing up to IndexStarted: open the store, load the indexed paths,
\* collect the worklist.
run_indexing ==
    /\ pc = "run"
    /\ open_or_create_db(db_path, "none", tableExists, rows).kind = "ok"
    /\ LET loaded == IF ~force_all
                     THEN load_indexed_files(indexed_files, tableExists, rows)
                     ELSE indexed_files
           fl == collect_files_to_index(disk, dir_order, force_all, loaded)
           total == Len(fl)
       IN /\ indexed_files' = loaded
          /\ files' = fl
          /\ chunk_idx' = 0
          /\ indexed_count' = 0
          /\ Send(FirstIndexMsg(total))
          /\ pc' = IF total = 0 THEN "done" ELSE "embed"
          /\ hist' = [hist EXCEPT !.scanned = TRUE, !.rows0 = rows,
                          !.fsAtScan = fsChanged,
                          !.expected =
                              Cardinality({p \in disk : is_image_file(p, disk)}
                                          \ {PathBufFrom(s) : s \in RowPaths(rows)})]
    /\ fsChanged' = FALSE
    /\ UNCHANGED <<disk, dir_order, db_path, storeVars, force_all, cpu_mode, image_model, embeddings,
                   results, calls, removed, removal, counted, handles, app, racers, prev>>

\* collect_files_to_index returns Err, a directory under the screenshot
\* directory being unreadable: run_indexing's `?` returns it after the
\* indexed paths were loaded, and start_indexing sends IndexFailed.
run_indexing_scan_err(unreadable) ==
    /\ pc = "run"
    /\ open_or_create_db(db_path, "none", tableExists, rows).kind = "ok"
    /\ VisitFails(ScreenshotDir, disk, unreadable)
    /\ indexed_files' = IF ~force_all
                        THEN load_indexed_files(indexed_files, tableExists, rows)
                        ELSE indexed_files
    /\ Send(Msg("IndexFailed", 0, 0, NoLabel))
    /\ pc' = "done"
    /\ hist' = [hist EXCEPT !.readErr = TRUE]
    /\ UNCHANGED <<disk, dir_order, db_path, storeVars, force_all, cpu_mode, image_model,
                   files, chunk_idx, indexed_count, embeddings, results, calls, fsChanged, removed, removal, counted, handles, app, racers, prev>>

\* run_indexing returns Err (the store cannot be opened, the table or the
\* screenshot directory cannot be read): start_indexing sends IndexFailed.
run_indexing_err ==
    /\ pc = "run"
    /\ Send(Msg("IndexFailed", 0, 0, NoLabel))
    /\ pc' = "done"
    /\ UNCHANGED <<disk, dir_order, db_path, storeVars, force_all, cpu_mode, image_model, indexed_files,
                   files, chunk_idx, indexed_count, embeddings, results, calls, fsChanged, removed, removal, counted, handles, app, racers, prev, hist>>

\* run_indexing: open_or_create_db panics; the indexing thread ends without a
\* message.
run_indexing_panic ==
    /\ pc = "run"
    /\ open_or_create_db(db_path, "none", tableExists, rows).kind = "panic"
    /\ pc' = "panicked"
    /\ UNCHANGED <<disk, dir_order, db_path, storeVars, force_all, cpu_mode, image_model,
                   indexed_files, files, chunk_idx, indexed_count, embeddings, events,
                   results, calls, fsChanged, removed, removal, counted, handles, app, racers, prev, hist>>

\* The chunk index_batch's loop is at.
CurChunk == Chunk(files, batch_size(cpu_mode), chunk_idx)

\* Faulty variant of NextChunk: every other chunk is left out.
NextChunkSkipping(idx) == idx + 2

\* files.chunks(batch_size).enumerate(): the chunk after the one at idx.
NextChunk(idx) == idx + 1

\* Faulty variant of AfterChunk: the loop ends after its first chunk.
AfterChunkStop == "finish"

\* Where the loop goes after the chunk at chunk_idx.
AfterChunk ==
    IF NextChunk(chunk_idx) < NumChunks(files, batch_size(cpu_mode))
    THEN "embed" ELSE "finish"

\* index_batch: a chunk none of whose paths is Unicode is skipped (continue).
index_batch_skip ==
    /\ pc = "embed"
    /\ FilterMapToStr(CurChunk) = <<>>
    /\ chunk_idx' = NextChunk(chunk_idx)
    /\ pc' = AfterChunk
    /\ hist' = [hist EXCEPT !.dropped = TRUE]
    /\ UNCHANGED <<disk, dir_order, db_path, storeVars, force_all, cpu_mode, image_model, indexed_files,
                   files, indexed_count, embeddings, events, results, calls, fsChanged, removed, removal, counted, handles, app, racers, prev>>

\* model.embed can return the vectors only when every image of the batch can
\* be read and decoded.
CanEmbed(strs, d) ==
    \A i \in 1..Len(strs) :
        PathBufFrom(strs[i]) \in d /\ PathBufFrom(strs[i]) # CorruptFile

\* index_batch: model.embed returns one vector per path string, in order.
index_batch_embed ==
    /\ pc = "embed"
    /\ LET strs == FilterMapToStr(CurChunk)
       IN /\ strs # <<>>
          /\ CanEmbed(strs, disk)
          /\ embeddings' = [i \in 1..Len(strs) |-> ImageVector(strs[i])]
          /\ hist' = [hist EXCEPT !.embedCalls = @ + 1, !.model = image_model,
                          !.dropped = @ \/ Len(strs) < Len(CurChunk),
                          !.batch = [NoBatch EXCEPT !.requested = strs,
                                                    !.returned = Len(strs)]]
    /\ pc' = "insert"
    /\ UNCHANGED <<disk, dir_order, db_path, storeVars, force_all, cpu_mode, image_model, indexed_files,
                   files, chunk_idx, indexed_count, events, results, calls, fsChanged, removed, removal, counted, handles, app, racers, prev>>

\* index_batch: model.embed (or its task) fails; `??` returns the error and
\* run_indexing goes on to its completion message.
index_batch_embed_err ==
    /\ pc = "embed"
    /\ FilterMapToStr(CurChunk) # <<>>
    /\ pc' = OnEmbedErr
    /\ hist' = [hist EXCEPT !.embedCalls = @ + 1, !.embedFail = TRUE,
                    !.model = image_model,
                    !.failRows = rows, !.failCount = indexed_count,
                    !.failCalls = hist.embedCalls + 1]
    /\ UNCHANGED <<disk, dir_order, db_path, storeVars, force_all, cpu_mode, image_model, indexed_files,
                   files, chunk_idx, indexed_count, embeddings, events, results,
                   calls, fsChanged, removed, removal, counted, handles, app, racers, prev>>

\* Faulty variant of TableAdd: the batch replaces the table.
TableAddReplace(exists, rs, batch) == IF batch = <<>> THEN rs ELSE batch

\* insert_embeddings' store call: table.add when the table exists,
\* db.create_table with the batch otherwise; nothing for an empty batch.
TableAdd(exists, rs, batch) ==
    IF batch = <<>> THEN rs
    ELSE IF exists THEN rs \o batch
    ELSE batch

\* The paths index_batch hands to insert_embeddings: &chunk[..num_inserted].
InsertPaths == SubSeq(CurChunk, 1, num_inserted(embeddings, CurChunk))

\* index_batch: insert_embeddings succeeds, the count and the progress follow.
index_batch_insert ==
    /\ pc = "insert"
    /\ LET res == insert_embeddings(InsertPaths, embeddings, disk)
           n == num_inserted(embeddings, CurChunk)
       IN /\ res.kind = "ok"
          /\ rows' = TableAdd(tableExists, rows, res.rows)
          /\ tableExists' = (tableExists \/ res.rows # <<>>)
          /\ indexed_files' = IF res.rows = <<>> THEN indexed_files
                              ELSE indexed_files \cup Range(InsertPaths)
          /\ indexed_count' = AddCount(indexed_count, n)
          /\ Send(Msg("IndexProgress", AddCount(indexed_count, n), Len(files),
                      FileNameLabel(CurChunk[1])))
          /\ removed' = removed \ {PathBufFrom(res.rows[i].file_path) :
                                       i \in 1..Len(res.rows)}
          /\ hist' = [hist EXCEPT !.appended = @ + Len(res.rows),
                          !.skipped = @ \/ Len(res.rows) < Len(InsertPaths),
                          !.batch = [@ EXCEPT !.inserted = res.rows, !.done = TRUE,
                                              !.existed = tableExists,
                                              !.before = rows]]
    /\ embeddings' = <<>>
    /\ chunk_idx' = NextChunk(chunk_idx)
    /\ pc' = AfterChunk
    /\ UNCHANGED <<disk, dir_order, db_path, force_all, cpu_mode, image_model, files, results, calls,
                   fsChanged, removal, counted, handles, app, racers, prev>>

\* index_batch: insert_embeddings returns Err (the lengths differ, or the store
\* rejects the batch); nothing is written and the loop ends.
index_batch_insert_err ==
    /\ pc = "insert"
    /\ LET res == insert_embeddings(InsertPaths, embeddings, disk)
       IN \/ res.kind = "err"
          \/ res.kind = "ok" /\ res.rows # <<>>
    /\ pc' = "finish"
    /\ embeddings' = <<>>
    /\ hist' = [hist EXCEPT !.insertErr = TRUE]
    /\ UNCHANGED <<disk, dir_order, db_path, storeVars, force_all, cpu_mode, image_model, indexed_files,
                   files, chunk_idx, indexed_count, events, results, calls, fsChanged, removed, removal, counted, handles, app, racers, prev>>

\* index_batch: path.to_str().unwrap() panics inside insert_embeddings; the
\* indexing thread ends without another message.
index_batch_insert_panic ==
    /\ pc = "insert"
    /\ insert_embeddings(InsertPaths, embeddings, disk).kind = "panic"
    /\ pc' = "panicked"
    /\ UNCHANGED <<disk, dir_order, db_path, storeVars, force_all, cpu_mode, image_model, indexed_files,
                   files, chunk_idx, indexed_count, embeddings, events, results,
                   calls, fsChanged, removed, removal, counted, handles, app, racers, prev, hist>>

\* Faulty variant of CompletionMsg: IndexFailed when no file was counted.
CompletionMsgFailedOnZero(count) ==
    IF count = 0 THEN Msg("IndexFailed", 0, 0, NoLabel)
    ELSE Msg("IndexCompleted", count, 0, NoLabel)

\* The message run_indexing sends after index_batch returned.
CompletionMsg(count) == Msg("IndexCompleted", count, 0, NoLabel)

\* run_indexing after index_batch returned, Ok or Err: the completion message.
run_indexing_finish ==
    /\ pc = "finish"
    /\ Send(CompletionMsg(indexed_count))
    /\ pc' = "done"
    /\ UNCHANGED <<disk, dir_order, db_path, storeVars, force_all, cpu_mode, image_model, indexed_files,
                   files, chunk_idx, indexed_count, embeddings, results, calls, fsChanged, removed, removal, counted, handles, app, racers, prev, hist>>

(* ------------------------- search and removal -------------------------- *)
RECURSIVE ExtractPathsUnchecked(_, _, _, _)
\* Faulty variant of ExtractPaths: path.exists() is not asked.
ExtractPathsUnchecked(ranked, limit, d, paths) ==
    IF ranked = <<>> \/ Len(paths) >= limit THEN paths
    ELSE ExtractPathsUnchecked(Tail(ranked), limit, d,
                               Append(paths, PathBufFrom(Head(ranked).file_path)))

RECURSIVE ExtractPathsOver(_, _, _, _)
\* Faulty variant of ExtractPaths: the loop stops one path late.
ExtractPathsOver(ranked, limit, d, paths) ==
    IF ranked = <<>> \/ Len(paths) > limit THEN paths
    ELSE LET path == PathBufFrom(Head(ranked).file_path)
         IN ExtractPathsOver(Tail(ranked), limit, d,
                             IF path \in d THEN Append(paths, path) ELSE paths)

RECURSIVE ExtractPaths(_, _, _, _)
\* search_images_impl's loop over the ranked rows: a path is kept when it
\* exists, until `limit` paths are kept.
ExtractPaths(ranked, limit, d, paths) ==
    IF ranked = <<>> \/ Len(paths) >= limit THEN paths
    ELSE LET path == PathBufFrom(Head(ranked).file_path)
         IN ExtractPaths(Tail(ranked), limit, d,
                         IF path \in d THEN Append(paths, path) ELSE paths)

\* The call left the store as it found it.
StoreKept(db, exists, rs) == db.exists = exists /\ db.rows = rs

\* Faulty variant of SearchStore: the rows of files that are gone are deleted.
SearchStoreRepaired(db, d) ==
    SelectSeq(db.rows, LAMBDA r : PathBufFrom(r.file_path) \in d)

\* The rows search_images_impl leaves in the store it opened: it only reads.
SearchStore(db, d) == db.rows

\* What can go wrong in one search: the query embedding fails or comes back
\* empty, the store, the table or the query fails.
SearchFaults ==
    {"none", "embed", "noVector", "open", "connect", "recreate", "table", "query"}

\* A result of search_images_impl: Ok, Err or panic, the paths of Ok,
\* whether db.table_names() was asked and whether the extraction loop ran.
SearchRes(kind, paths, listed, looped) ==
    [kind |-> kind, paths |-> paths, listed |-> listed, looped |-> looped]

\* Faulty variant of OnNoTable: a missing table is an error.
OnNoTableErr == SearchRes("err", <<>>, TRUE, FALSE)

\* search_images_impl when the store has no `images` table.
OnNoTable == SearchRes("ok", <<>>, TRUE, FALSE)

\* search_images_impl: Ok(paths), Err, or a panic of the search thread.
search_images_impl(ranked, limit, db, d, fault) ==
    IF fault = "embed" THEN SearchRes("err", <<>>, FALSE, FALSE)
    ELSE IF fault = "noVector" THEN SearchRes("ok", <<>>, FALSE, FALSE)
    ELSE IF db.kind = "err" THEN SearchRes("err", <<>>, FALSE, FALSE)
    ELSE IF db.kind = "panic" THEN SearchRes("panic", <<>>, FALSE, FALSE)
    ELSE IF ~db.exists THEN OnNoTable
    ELSE IF fault \in {"table", "query"} THEN SearchRes("err", <<>>, TRUE, FALSE)
    ELSE SearchRes("ok", ExtractPaths(ranked, limit, d, <<>>), TRUE, TRUE)

SearchResultsMsg(paths) == [tag |-> "SearchResults", paths |-> paths]

\* What search_images sends when search_images_impl returned Err.
OnSearchErr == <<SearchResultsMsg(<<>>)>>

\* The messages one search_images call sends.
SearchMsgs(res) ==
    IF res.kind = "panic" THEN <<>>
    ELSE IF res.kind = "ok" THEN <<SearchResultsMsg(res.paths)>>
    ELSE OnSearchErr

\* search_images: its thread runs search_images_impl and sends the result.
search_images(ranked, limit, fault) ==
    /\ ThreadOver
    /\ calls < MaxCalls
    /\ calls' = calls + 1
    /\ LET opens == fault \notin {"embed", "noVector"}
           db == IF opens THEN open_or_create_db(db_path, fault, tableExists, rows)
                 ELSE OnConnectOk(tableExists, rows)
           res == search_images_impl(ranked, limit, db, disk, fault)
           msgs == SearchMsgs(res)
       IN /\ tableExists' = db.exists
          /\ rows' = SearchStore(db, disk)
          /\ results' = [called |-> TRUE, sent |-> msgs # <<>>, msgs |-> msgs,
                      paths |-> IF msgs # <<>> THEN msgs[1].paths ELSE <<>>,
                      kind |-> res.kind, listed |-> res.listed,
                      exists |-> db.exists, looped |-> res.looped,
                      limit |-> IF res.looped THEN limit ELSE 0,
                      ranked |-> IF res.looped
                                 THEN [i \in 1..Len(ranked) |->
                                          PathBufFrom(ranked[i].file_path)]
                                 ELSE <<>>,
                      disk |-> disk, rowPaths |-> RowPaths(rows),
                      removed |-> removed,
                      healed |-> db.failed /\ ~StoreKept(db, tableExists, rows),
                      kept |-> db.exists = tableExists /\ SearchStore(db, disk) = rows]
          /\ hist' = [hist EXCEPT !.lost = @ \/ SearchStore(db, disk) # rows]
    /\ UNCHANGED <<disk, dir_order, db_path, cpu_mode, runVars, fsChanged, removed, removal, counted, handles, app, racers, prev>>

\* path.to_string_lossy(): a name that is not Unicode gets replacement characters.
ToStringLossy(p) ==
    IF p.utf8 THEN Unwrap(ToStr(p)) ELSE [name |-> -4, ext |-> p.ext]

\* The predicate's column in remove_from_index_impl: "path = '...'".
DeleteColumn == "path"

\* What can go wrong in one removal: the store cannot be opened, or
\* table_names or open_table fails.
RemoveFaults == OpenFaults \cup {"table"}

\* remove_from_index_impl: Ok or Err (or a panic of its thread), and the
\* store it leaves.
remove_from_index_impl(p, db, fault) ==
    IF db.kind # "ok" THEN [kind |-> db.kind, rows |-> db.rows]
    ELSE IF fault = "table" THEN [kind |-> "err", rows |-> db.rows]
    ELSE IF ~db.exists THEN [kind |-> "ok", rows |-> db.rows]
    ELSE LET del == TableDelete(db.rows, DeleteColumn, ToStringLossy(p))
         IN [kind |-> IF del.ok THEN "ok" ELSE "err", rows |-> del.rows]

\* Faulty variant of RemoveMsgs: a failed removal is reported.
RemoveMsgsOnErr(res) ==
    IF res.kind = "err" THEN <<Msg("IndexFailed", 0, 0, NoLabel)>> ELSE <<>>

\* What remove_from_index sends: its match only logs.
RemoveMsgs(res) == <<>>

\* The rows whose file_path is not s, in order.
OtherRows(rs, s) == SelectSeq(rs, LAMBDA r : r.file_path # s)

\* remove_from_index: the result is logged, whatever it is.
remove_from_index(p, fault) ==
    /\ ThreadOver
    /\ calls < MaxCalls
    /\ calls' = calls + 1
    /\ LET db == open_or_create_db(db_path, fault, tableExists, rows)
           res == remove_from_index_impl(p, db, fault)
           s == ToStringLossy(p)
       IN /\ tableExists' = db.exists
          /\ rows' = res.rows
          /\ events' = events \o RemoveMsgs(res)
          /\ removed' = IF /\ db.kind = "ok" /\ fault # "table"
                           /\ db.exists /\ s \in RowPaths(db.rows)
                        THEN removed \cup {p} ELSE removed
          /\ removal' = [called |-> TRUE, kind |-> res.kind,
                         faulted |-> fault # "none",
                         healed |-> db.failed /\ ~StoreKept(db, tableExists, rows),
                         exists |-> db.exists,
                         present |-> s \in RowPaths(rows),
                         sent |-> RemoveMsgs(res) # <<>>,
                         kept |-> db.exists = tableExists /\ res.rows = rows,
                         othersKept |-> OtherRows(res.rows, s) = OtherRows(rows, s)]
          /\ hist' = [hist EXCEPT !.lost = @ \/ db.rows # rows]
    /\ UNCHANGED <<disk, dir_order, db_path, force_all, cpu_mode, image_model,
                   indexed_files, files, chunk_idx, indexed_count, embeddings, pc,
                   results, fsChanged, counted, handles, app, racers, prev>>

\* What can go wrong in one count: the store cannot be opened, table_names
\* fails, or open_table or count_rows fails.
CountFaults == OpenFaults \cup {"table", "count"}

\* A result of get_indexed_count: Ok(count), Err, or a panic of the caller.
Counted(kind, count) == [kind |-> kind, count |-> count]

\* Faulty variant of OnNoTableCount: a missing table is an error.
OnNoTableCountErr == Counted("err", 0)

\* get_indexed_count when the store has no `images` table.
OnNoTableCount == Counted("ok", 0)

\* get_indexed_count on the store open_or_create_db returned.
get_indexed_count_impl(db, fault) ==
    IF db.kind # "ok" THEN Counted(db.kind, 0)
    ELSE IF fault = "table" THEN Counted("err", 0)
    ELSE IF ~db.exists THEN OnNoTableCount
    ELSE IF fault = "count" THEN Counted("err", 0)
    ELSE Counted("ok", Len(db.rows))

\* get_indexed_count(config), called by the application on its own thread.
get_indexed_count(fault) ==
    /\ LET db == open_or_create_db(db_path, fault, tableExists, rows)
           res == get_indexed_count_impl(db, fault)
       IN /\ tableExists' = db.exists
          /\ rows' = db.rows
          /\ counted' = [called |-> TRUE, kind |-> res.kind, count |-> res.count,
                         fault |-> fault, failed |-> db.failed,
                         exists |-> tableExists, rows |-> rows]
    /\ UNCHANGED <<disk, dir_order, db_path, cpu_mode, runVars, results, calls,
                   fsChanged, removed, removal, handles, app, racers, prev, hist>>

(* --------------------------- the specification ------------------------- *)
Next ==
    \/ \E p \in Screenshots : CreateFile(p)
    \/ \E p \in Volatile : DeleteFile(p)
    \/ \E fa \in BOOLEAN, vision \in BOOLEAN, text \in BOOLEAN :
           start_indexing(fa, vision, text)
    \/ \E outcome \in {"ok", "vision", "text"} : download_models(outcome)
    \/ run_indexing
    \/ run_indexing_err
    \/ \E unreadable \in {{SubDir}} : run_indexing_scan_err(unreadable)
    \/ run_indexing_panic
    \/ index_batch_skip
    \/ index_batch_embed
    \/ index_batch_embed_err
    \/ index_batch_insert
    \/ index_batch_insert_err
    \/ index_batch_insert_panic
    \/ run_indexing_finish
    \/ \E q \in Queries :
           LET ranked == NearestTo(rows, TextVector(q))
           IN \E fault \in SearchFaults, limit \in 0..MaxLimit :
                  /\ fault # "none" => limit = MaxLimit
                  /\ search_images(ranked, limit, fault)
    \/ \E p \in Screenshots, fault \in RemoveFaults : remove_from_index(p, fault)

Spec == Init /\ [][Next]_vars

(* ----------------- one corpus indexed under both modes ------------------ *)
\* The corpus is indexed with prewarmed models into an empty store under
\* CpuMode::Normal.
InitModes ==
    /\ \E n \in CorpusSizes, bad \in BOOLEAN, corrupt \in BOOLEAN :
           disk = Corpus(n, bad) \cup (IF corrupt THEN {CorruptFile} ELSE {})
    /\ dir_order \in {"asc", "desc"}
    /\ db_path = "utf8"
    /\ tableExists = FALSE
    /\ rows = <<>>
    /\ pc = "run"
    /\ force_all = FALSE
    /\ cpu_mode = "Normal"
    /\ image_model = "prewarmed"
    /\ indexed_files = {}
    /\ files = <<>>
    /\ chunk_idx = 0
    /\ indexed_count = 0
    /\ embeddings = <<>>
    /\ events = <<>>
    /\ results = NoResults
    /\ calls = 0
    /\ fsChanged = FALSE
    /\ removed = {}
    /\ removal = NoRemoval
    /\ counted = NoCount
    /\ handles = NoHandles
    /\ app = NoApp
    /\ racers = NoRacers
    /\ prev = NoPrev
    /\ hist = [NoHist EXCEPT !.prewarmed = TRUE]

\* start_indexing once more for the same corpus, with config.cpu_mode Fast and
\* a config.db_path at which there is no store yet.
index_other_mode ==
    /\ pc \in {"done", "panicked"}
    /\ cpu_mode = "Normal"
    /\ cpu_mode' = "Fast"
    /\ prev' = [RunSummary EXCEPT !.rows = rows]
    /\ tableExists' = FALSE
    /\ rows' = <<>>
    /\ pc' = "run"
    /\ image_model' = "prewarmed"
    /\ indexed_files' = {}
    /\ files' = <<>>
    /\ chunk_idx' = 0
    /\ indexed_count' = 0
    /\ embeddings' = <<>>
    /\ events' = <<>>
    /\ hist' = [NoHist EXCEPT !.prewarmed = TRUE]
    /\ UNCHANGED <<disk, dir_order, db_path, force_all, results, calls, fsChanged, removed, removal, counted, handles, app, racers>>

\* Both runs meet the same environment: the directory does not change, the
\* store accepts every batch, and model.embed fails exactly for a batch that
\* holds a file it cannot decode.
NextModes ==
    \/ run_indexing
    \/ index_batch_skip
    \/ index_batch_embed
    \/ ~CanEmbed(FilterMapToStr(CurChunk), disk) /\ index_batch_embed_err
    \/ index_batch_insert
    \/ index_batch_insert_panic
    \/ run_indexing_finish
    \/ index_other_mode

SpecModes == InitModes /\ [][NextModes]_vars

(* ------------------ the store under get_indexed_count ------------------ *)
\* A store an indexing run leaves: the rows of the first n plain files.
StoreOf(n) ==
    [i \in 1..n |->
        Row(Unwrap(ToStr(PlainFile(i))), ImageVector(Unwrap(ToStr(PlainFile(i)))))]

\* The program is idle over a store of any size, with or without the table.
InitStore ==
    /\ disk = Corpus(MaxFiles, FALSE)
    /\ dir_order = "asc"
    /\ db_path \in {"utf8", "other"}
    /\ \E n \in 0..MaxFiles : rows = StoreOf(n)
    /\ tableExists \in BOOLEAN
    /\ rows # <<>> => tableExists
    /\ pc = "idle"
    /\ force_all = FALSE
    /\ cpu_mode = "Normal"
    /\ image_model = "none"
    /\ indexed_files = {}
    /\ files = <<>>
    /\ chunk_idx = 0
    /\ indexed_count = 0
    /\ embeddings = <<>>
    /\ events = <<>>
    /\ results = NoResults
    /\ calls = 0
    /\ fsChanged = FALSE
    /\ removed = {}
    /\ removal = NoRemoval
    /\ counted = NoCount
    /\ handles = NoHandles
    /\ app = NoApp
    /\ racers = NoRacers
    /\ prev = NoPrev
    /\ hist = NoHist

NextStore == \E fault \in CountFaults : get_indexed_count(fault)

SpecStore == InitStore /\ [][NextStore]_vars

(* --------------- the model handles under concurrent requests ----------- *)
programVars == <<disk, dir_order, db_path, tableExists, rows, pc, force_all, cpu_mode,
                 image_model, indexed_files, files, chunk_idx, indexed_count,
                 embeddings, events, results, calls, fsChanged, removed, removal,
                 counted, prev, hist>>

\* Faulty variant of MutexFree: lock() returns while another guard is alive.
MutexFreeAlways(lock, i) == TRUE

\* Mutex::lock returns only when no guard of that Mutex is alive.
MutexFree(lock, i) == lock[i] = "free"

SetTask(t, step, model) ==
    [handles.task EXCEPT ![t] = [@ EXCEPT !.pc = step, !.model = model]]

\* Which of prewarmed_vision / prewarmed_text a call is given.
Supplied(vision, text) ==
    IF vision /\ text THEN "both"
    ELSE IF vision THEN "vision"
    ELSE IF text THEN "text" ELSE "none"

\* The prewarm thread loads the vision model and stores it in
\* PREWARMED_VISION_MODEL; a model that fails to load leaves the static None.
prewarm_vision(ok) ==
    /\ handles.warm = "vision"
    /\ handles' = [handles EXCEPT
                      !.warm = "text",
                      !.images = IF ok THEN @ + 1 ELSE @,
                      !.vision = IF ok THEN handles.images + 1 ELSE @]
    /\ UNCHANGED <<programVars, app, racers>>

\* The prewarm thread then loads the text model into PREWARMED_TEXT_MODEL.
prewarm_text(ok) ==
    /\ handles.warm = "text"
    /\ handles' = [handles EXCEPT
                      !.warm = "over",
                      !.texts = IF ok THEN @ + 1 ELSE @,
                      !.text = IF ok THEN handles.texts + 1 ELSE @]
    /\ UNCHANGED <<programVars, app, racers>>

\* The application clones the two statics and calls start_indexing, whose
\* thread takes both handles when both are Some and downloads otherwise.
request_indexing(t) ==
    /\ handles.task[t].pc = "idle"
    /\ LET vision == handles.vision # 0
           text == handles.text # 0
           next == AfterStart(vision, text)
       IN handles' = [handles EXCEPT !.task =
              [@ EXCEPT ![t] =
                  [pc |-> IF next = "run" THEN "lock" ELSE "download",
                   model |-> IF next = "run" THEN handles.vision ELSE 0,
                   supplied |-> Supplied(vision, text),
                   msgs |-> <<>>]]]
    /\ UNCHANGED <<programVars, app, racers>>

\* download_models on an indexing thread: a new ImageEmbedding, then a new
\* TextEmbedding, kept in that thread's IndexerState when both loaded.
run_download_models(t, outcome) ==
    /\ handles.task[t].pc = "download"
    /\ handles' = [handles EXCEPT
                      !.images = IF outcome = "vision" THEN @ ELSE @ + 1,
                      !.texts = IF outcome = "ok" THEN @ + 1 ELSE @,
                      !.task =
                          [@ EXCEPT ![t] =
                              [@ EXCEPT !.pc = IF outcome = "ok" THEN "lock" ELSE "over",
                                        !.model = IF outcome = "ok"
                                                  THEN handles.images + 1 ELSE 0,
                                        !.msgs = DownloadMsgs(outcome)]]]
    /\ UNCHANGED <<programVars, app, racers>>

\* index_batch's blocking task takes the guard of its image model.
run_lock(t) ==
    /\ handles.task[t].pc = "lock"
    /\ MutexFree(handles.imageLock, handles.task[t].model)
    /\ handles' = [handles EXCEPT
                      !.imageLock[handles.task[t].model] = t,
                      !.task = SetTask(t, "embed", handles.task[t].model)]
    /\ UNCHANGED <<programVars, app, racers>>

\* model.embed returns and the guard is dropped; the run goes on to its next
\* chunk or ends.
run_embedded(t, more) ==
    /\ handles.task[t].pc = "embed"
    /\ handles' = [handles EXCEPT
                      !.imageLock[handles.task[t].model] = "free",
                      !.task = SetTask(t, IF more THEN "lock" ELSE "over",
                                       handles.task[t].model)]
    /\ UNCHANGED <<programVars, app, racers>>

\* The search handler: search_images with the prewarmed text model, or a
\* thread that loads a TextEmbedding of its own and searches with that one.
request_search(t, ok) ==
    /\ handles.task[t].pc = "idle"
    /\ handles.text # 0 => ok
    /\ handles' =
           IF handles.text # 0
           THEN [handles EXCEPT !.task = SetTask(t, "lock", handles.text)]
           ELSE IF ok
           THEN [handles EXCEPT !.texts = @ + 1,
                                !.task = SetTask(t, "lock", handles.texts + 1)]
           ELSE [handles EXCEPT !.task = SetTask(t, "over", 0)]
    /\ UNCHANGED <<programVars, app, racers>>

\* The SearchQuery handler of process_messages: search_images with the
\* prewarmed text model; without one the message is dropped.
search_query(t) ==
    /\ handles.task[t].pc = "idle"
    /\ handles' =
           IF handles.text # 0
           THEN [handles EXCEPT !.task = SetTask(t, "lock", handles.text)]
           ELSE [handles EXCEPT !.task = SetTask(t, "over", 0)]
    /\ UNCHANGED <<programVars, app, racers>>

\* search_images_impl's blocking task takes the guard of its text model.
search_lock(t) ==
    /\ handles.task[t].pc = "lock"
    /\ MutexFree(handles.textLock, handles.task[t].model)
    /\ handles' = [handles EXCEPT
                      !.textLock[handles.task[t].model] = t,
                      !.task = SetTask(t, "embed", handles.task[t].model)]
    /\ UNCHANGED <<programVars, app, racers>>

\* The query is embedded (or the model fails) and the guard is dropped;
\* search_images then sends the paths search_images_impl returned, or the
\* empty list for its Err.
search_embedded(t, paths) ==
    /\ handles.task[t].pc = "embed"
    /\ handles' = [handles EXCEPT
                      !.textLock[handles.task[t].model] = "free",
                      !.task = [@ EXCEPT ![t] =
                                   [@ EXCEPT !.pc = "over",
                                             !.msgs = <<SearchResultsMsg(paths)>>]]]
    /\ UNCHANGED <<programVars, app, racers>>

\* The application starts with or without its prewarm thread
\* (settings.indexing_enabled && settings.models_downloaded).
InitHandles ==
    /\ disk = Corpus(0, FALSE)
    /\ dir_order = "asc"
    /\ db_path = "utf8"
    /\ rows = <<>>
    /\ tableExists = FALSE
    /\ pc = "idle"
    /\ force_all = FALSE
    /\ cpu_mode = "Normal"
    /\ image_model = "none"
    /\ indexed_files = {}
    /\ files = <<>>
    /\ chunk_idx = 0
    /\ indexed_count = 0
    /\ embeddings = <<>>
    /\ events = <<>>
    /\ results = NoResults
    /\ calls = 0
    /\ fsChanged = FALSE
    /\ removed = {}
    /\ removal = NoRemoval
    /\ counted = NoCount
    /\ \E warm \in {"vision", "over"} : handles = [NoHandles EXCEPT !.warm = warm]
    /\ app = NoApp
    /\ racers = NoRacers
    /\ prev = NoPrev
    /\ hist = NoHist

NextHandles ==
    \/ \E ok \in BOOLEAN : prewarm_vision(ok)
    \/ \E ok \in BOOLEAN : prewarm_text(ok)
    \/ \E t \in Runs : request_indexing(t)
    \/ \E t \in Runs, outcome \in {"ok", "vision", "text"} : run_download_models(t, outcome)
    \/ \E t \in Runs : run_lock(t)
    \/ \E t \in Runs, more \in BOOLEAN : run_embedded(t, more)
    \/ \E t \in Searches, ok \in BOOLEAN : request_search(t, ok)
    \/ \E t \in Searches : search_query(t)
    \/ \E t \in Searches : search_lock(t)
    \/ \E t \in Searches : search_embedded(t, <<>>)

SpecHandles == InitHandles /\ [][NextHandles]_vars

(* ------------------ auto-indexing of new screenshots ------------------- *)
\* The runs that are started and not over.
ActiveRuns == {i \in 1..MaxShots : app.run[i] \in {"started", "indexing"}}

\* A run add_screenshot can start: one for every NewScreenshot at most.
IdleRuns == {i \in 1..MaxShots : app.run[i] = "idle"}

\* The file watcher sends NewScreenshot(path, true).
new_screenshot ==
    /\ app.shots < MaxShots
    /\ app' = [app EXCEPT !.shots = @ + 1,
                          !.inbox = Append(@, "NewScreenshot")]
    /\ UNCHANGED <<programVars, handles, racers>>

\* add_screenshot with should_auto_index, indexing enabled and the models
\* downloaded: start_indexing unless self.indexing is set.
add_screenshot(a) ==
    IF ~a.indexing /\ IdleRuns # {}
    THEN [a EXCEPT !.run[CHOOSE i \in IdleRuns : \A j \in IdleRuns : i <= j] = "started"]
    ELSE a

\* process_messages handles the next message of the channel: NewScreenshot
\* goes to add_screenshot, IndexStarted sets self.indexing and IndexCompleted
\* clears it.
process_messages ==
    /\ app.inbox # <<>>
    /\ LET msg == Head(app.inbox)
           rest == [app EXCEPT !.inbox = Tail(@)]
       IN app' = IF msg = "NewScreenshot" THEN add_screenshot(rest)
                 ELSE IF msg = "IndexStarted" THEN [rest EXCEPT !.indexing = TRUE]
                 ELSE [rest EXCEPT !.indexing = FALSE]
    /\ UNCHANGED <<programVars, handles, racers>>

\* run_indexing of a started run finds its worklist: IndexStarted(total) for
\* a worklist with files, IndexCompleted(0) for an empty one.
auto_run_started(i, empty) ==
    /\ app.run[i] = "started"
    /\ app' = [app EXCEPT
                  !.run[i] = IF empty THEN "over" ELSE "indexing",
                  !.inbox = Append(@, IF empty THEN "IndexCompleted"
                                      ELSE "IndexStarted")]
    /\ UNCHANGED <<programVars, handles, racers>>

\* run_indexing after index_batch: IndexCompleted(indexed_count).
auto_run_completed(i) ==
    /\ app.run[i] = "indexing"
    /\ app' = [app EXCEPT !.run[i] = "over",
                          !.inbox = Append(@, "IndexCompleted")]
    /\ UNCHANGED <<programVars, handles, racers>>

NextApp ==
    \/ new_screenshot
    \/ process_messages
    \/ \E i \in 1..MaxShots, empty \in BOOLEAN : auto_run_started(i, empty)
    \/ \E i \in 1..MaxShots : auto_run_completed(i)

\* The application is idle, indexing is enabled and the models are
\* downloaded; the store and the indexing thread are those of InitStore.
InitApp == InitStore /\ db_path = "utf8" /\ rows = <<>> /\ ~tableExists

SpecApp == InitApp /\ [][NextApp]_vars

(* ------------------ indexing runs that share the store ----------------- *)
\* The chunk the loop of run t is at.
RacerChunk(t) == Chunk(racers[t].files, batch_size(cpu_mode), racers[t].chunk_idx)

\* db.create_table("images", batch): an error when the table exists already.
CreateTable(exists, rs, batch) ==
    IF exists THEN [kind |-> "err", rows |-> rs]
    ELSE [kind |-> "ok", rows |-> batch]

\* The store call of insert_embeddings: table.add when table_names listed
\* `images`, db.create_table otherwise.
StoreWrite(names, exists, rs, batch) ==
    IF names THEN [kind |-> "ok", rows |-> TableAdd(exists, rs, batch)]
    ELSE CreateTable(exists, rs, batch)

\* run_indexing of run t up to its first message: the store is opened, the
\* indexed paths are loaded and the worklist is collected.
racer_start(t) ==
    /\ racers[t].pc = "idle"
    /\ LET indexed == load_indexed_files({}, tableExists, rows)
           fl == collect_files_to_index(disk, dir_order, FALSE, indexed)
       IN racers' = [racers EXCEPT ![t] =
              [NoRacer EXCEPT !.pc = IF fl = <<>> THEN "done" ELSE "embed",
                              !.indexed_files = indexed,
                              !.files = fl,
                              !.events = <<FirstIndexMsg(Len(fl))>>]]
    /\ UNCHANGED <<programVars, handles, app>>

\* index_batch of run t: the model returns the vectors of the chunk.
racer_embed(t) ==
    /\ racers[t].pc = "embed"
    /\ LET strs == FilterMapToStr(RacerChunk(t))
       IN racers' = [racers EXCEPT ![t] =
              [@ EXCEPT !.pc = "names",
                        !.embeddings = [i \in 1..Len(strs) |-> ImageVector(strs[i])]]]
    /\ UNCHANGED <<programVars, handles, app>>

\* insert_embeddings of run t asks db.table_names().
racer_table_names(t) ==
    /\ racers[t].pc = "names"
    /\ racers' = [racers EXCEPT ![t] = [@ EXCEPT !.pc = "write",
                                                 !.names = tableExists]]
    /\ UNCHANGED <<programVars, handles, app>>

\* insert_embeddings of run t writes its batch; index_batch counts it and
\* sends IndexProgress, or returns the error of the store.
racer_write(t) ==
    /\ racers[t].pc = "write"
    /\ LET r == racers[t]
           chunk == RacerChunk(t)
           n == num_inserted(r.embeddings, chunk)
           paths == SubSeq(chunk, 1, n)
           res == insert_embeddings(paths, r.embeddings, disk)
           out == StoreWrite(r.names, tableExists, rows, res.rows)
           more == NextChunk(r.chunk_idx) < NumChunks(r.files, batch_size(cpu_mode))
       IN /\ res.kind = "ok"
          /\ rows' = out.rows
          /\ tableExists' = (tableExists \/ out.kind = "ok")
          /\ racers' = [racers EXCEPT ![t] =
                 IF out.kind = "ok"
                 THEN [r EXCEPT !.pc = IF more THEN "embed" ELSE "finish",
                                !.indexed_files = @ \cup Range(paths),
                                !.indexed_count = AddCount(@, n),
                                !.chunk_idx = NextChunk(@),
                                !.embeddings = <<>>,
                                !.events = Append(@,
                                    Msg("IndexProgress", AddCount(r.indexed_count, n),
                                        Len(r.files), FileNameLabel(chunk[1])))]
                 ELSE [r EXCEPT !.pc = "finish", !.embeddings = <<>>,
                                !.failed = TRUE]]
    /\ UNCHANGED <<disk, dir_order, db_path, pc, force_all, cpu_mode, image_model,
                   indexed_files, files, chunk_idx, indexed_count, embeddings,
                   events, results, calls, fsChanged, removed, removal, counted,
                   handles, app, prev, hist>>

\* run_indexing of run t after index_batch returned: IndexCompleted.
racer_finish(t) ==
    /\ racers[t].pc = "finish"
    /\ racers' = [racers EXCEPT ![t] =
           [@ EXCEPT !.pc = "done",
                     !.events = Append(@, CompletionMsg(racers[t].indexed_count))]]
    /\ UNCHANGED <<programVars, handles, app>>

NextRace ==
    \/ \E t \in Runs : racer_start(t)
    \/ \E t \in Runs : racer_embed(t)
    \/ \E t \in Runs : racer_table_names(t)
    \/ \E t \in Runs : racer_write(t)
    \/ \E t \in Runs : racer_finish(t)

\* Two start_indexing(force_all = false) calls over the full corpus and a
\* store that holds none, some or all but one of its files.
RaceStores == {0, BatchSizeNormal + 1, MaxFiles - 1}

InitRace ==
    /\ InitStore
    /\ db_path = "utf8"
    /\ Len(rows) \in RaceStores
    /\ tableExists = (rows # <<>>)

SpecRace == InitRace /\ [][NextRace]_vars

(* ------------------------------ properties ----------------------------- *)
IndexTags == {"IndexStarted", "IndexProgress", "IndexCompleted", "IndexFailed"}

\* The indexing messages of the current run, in order.
IndexEvents == SelectSeq(events, LAMBDA m : m.tag \in IndexTags)

Started(total) == Msg("IndexStarted", 0, total, NoLabel)

Completed(n) == Msg("IndexCompleted", n, 0, NoLabel)

\* C1: whenever no indexing run is in flight, no two rows of the `images`
\* table have the same file_path.
C1_UniquePaths ==
    ThreadOver =>
        \A i, j \in 1..Len(rows) : i # j => rows[i].file_path # rows[j].file_path

\* The second of two consecutive completed runs with force_all = false, no
\* file created or deleted since the first run scanned the directory and the
\* store not removed since the first run ended.
C2_SecondRun ==
    /\ hist.scanned /\ ~force_all
    /\ prev.valid /\ ~prev.force_all
    /\ ~hist.fsAtScan
    /\ ~hist.lost

\* The run found nothing to do: an empty worklist, IndexCompleted(0) as its
\* only indexing message, the rows as they were.
C2_NothingIndexed ==
    /\ files = <<>>
    /\ pc = "done"
    /\ IndexEvents = <<Completed(0)>>
    /\ rows = hist.rows0

C3_DeleteThenSearch ==
    /\ \A p \in removed : ToStringLossy(p) \notin RowPaths(rows)
    /\ results.sent => \A p \in results.removed : p \notin Range(results.paths)

\* C4: every path a search returns existed on disk when the search ran; a
\* row whose file is gone is not in the result.
C4_StaleFiltered ==
    results.sent =>
        \A i \in 1..Len(results.paths) : results.paths[i] \in results.disk

C4_Witness ==
    /\ results.sent
    /\ results.paths # <<>>
    /\ \E s \in results.rowPaths : PathBufFrom(s) \notin results.disk

\* C5: the running indexed_count of a run, and the count its IndexCompleted
\* carries, is the number of rows the run has appended to the store.
C5_CountIsRowsAppended ==
    hist.scanned =>
        /\ indexed_count = hist.appended
        /\ (pc = "done" /\ LastIs("IndexCompleted")) =>
               events[Len(events)].cur = hist.appended

\* A finished run with force_all = false whose worklist was not empty and
\* whose every embedding and insert succeeded, the store as the run left it.
C6_Scenario ==
    /\ pc = "done" /\ hist.scanned /\ LastIs("IndexCompleted")
    /\ ~force_all /\ ~hist.lost
    /\ hist.expected > 0
    /\ AllSucceeded

C7_EmptyWorklist ==
    (hist.scanned /\ files = <<>>) =>
        /\ pc = "done"
        /\ IndexEvents = <<Completed(0)>>
        /\ ~hist.batch.done /\ hist.appended = 0
        /\ ~hist.lost => rows = hist.rows0

C7_Witness == hist.scanned /\ files = <<>> /\ hist.rows0 # <<>>

\* C8: the IndexProgress messages of a run have non-decreasing current and
\* all carry the total of the run's IndexStarted.
C8_ProgressMonotone ==
    LET ev == IndexEvents
    IN \A j \in 1..Len(ev) :
           ev[j].tag = "IndexProgress" =>
               /\ ev[1].tag = "IndexStarted"
               /\ ev[j].total = ev[1].total
               /\ \A i \in 1..(j - 1) :
                      ev[i].tag = "IndexProgress" => ev[i].cur <= ev[j].cur

C8_Witness ==
    LET ev == IndexEvents
    IN \E i, j \in 1..Len(ev) :
           /\ i < j
           /\ ev[i].tag = "IndexProgress" /\ ev[j].tag = "IndexProgress"
           /\ ev[i].cur < ev[j].cur

\* C9: in every successful batch as many records are inserted as embeddings
\* were returned, at most as many as paths were requested; the Nth inserted
\* record has the Nth requested path and the vector of the file it names.
C9_BatchPairing ==
    LET b == hist.batch
    IN b.done =>
           /\ Len(b.inserted) = b.returned
           /\ b.returned <= Len(b.requested)
           /\ \A n \in 1..Len(b.inserted) :
                  /\ n <= Len(b.requested)
                  /\ b.inserted[n].file_path = b.requested[n]
                  /\ b.inserted[n].vector = ImageVector(b.inserted[n].file_path)

\* The last clause of C9 alone: every row of the table holds the vector of the
\* file its file_path names.
C9_VectorOfNamedFile ==
    \A i \in 1..Len(rows) : rows[i].vector = ImageVector(rows[i].file_path)

\* C10: after the embedding of a batch failed, no further batch is embedded or
\* inserted, the rows are those of the earlier batches, and the count reached
\* before the failure is the one IndexCompleted reports.
C10_AbortOnEmbedFailure ==
    hist.embedFail =>
        /\ pc \in {"finish", "done"}
        /\ hist.embedCalls = hist.failCalls
        /\ ~hist.lost => rows = hist.failRows
        /\ indexed_count = hist.failCount
        /\ pc = "done" => events[Len(events)] = Completed(hist.failCount)

C10_Witness ==
    /\ hist.embedFail /\ pc = "done"
    /\ hist.failCount > 0
    /\ Len(rows) > Len(hist.rows0)
    /\ chunk_idx + 1 < NumChunks(files, batch_size(cpu_mode))

\* The call got to run_indexing: the models were supplied or loaded.
RunEntered == \A i \in 1..Len(events) : events[i].tag # "ModelDownloadFailed"

\* A batch failed (embedding or insert) before any row was written.
C11_FailedBeforeAnyFile ==
    /\ pc = "done" /\ hist.scanned
    /\ hist.embedFail \/ hist.insertErr
    /\ hist.appended = 0

\* C11 as stated: a finished run without a failed batch ends with
\* IndexCompleted(indexed_count); a run in which a batch failed before any file
\* completed, such as one whose first batch fails to embed, ends with
\* IndexFailed.
C11_Original ==
    /\ (pc = "done" /\ hist.scanned /\ ~hist.embedFail /\ ~hist.insertErr)
           => events[Len(events)] = Completed(indexed_count)
    /\ C11_FailedBeforeAnyFile => LastIs("IndexFailed")

\* C11: a finished run that got past the scan ends with
\* IndexCompleted(indexed_count) and sends no IndexFailed, also when a batch
\* failed: IndexCompleted(0) when the first batch fails to embed. IndexFailed
\* is the only indexing message of a run that failed before the batch loop.
C11_TerminalByStage ==
    (pc = "done" /\ RunEntered) =>
        /\ hist.scanned =>
               /\ events[Len(events)] = Completed(indexed_count)
               /\ \A i \in 1..Len(events) : events[i].tag # "IndexFailed"
        /\ ~hist.scanned =>
               IndexEvents = <<Msg("IndexFailed", 0, 0, NoLabel)>>
        /\ (hist.embedFail /\ hist.failCalls = 1) =>
               events[Len(events)] = Completed(0)

C11_Witness ==
    /\ pc = "done" /\ hist.embedFail /\ hist.failCalls = 1
    /\ Len(files) > batch_size(cpu_mode)
    /\ LastIs("IndexCompleted")

\* The Fast run over the corpus has finished after the Normal run did.
C12_BothRunsDone ==
    /\ cpu_mode = "Fast" /\ pc = "done" /\ hist.scanned
    /\ prev.valid

TerminalTags == {"IndexCompleted", "IndexFailed", "ModelDownloadFailed"}

\* The positions of the terminal events among the events of the call.
TerminalAt == {i \in 1..Len(events) : events[i].tag \in TerminalTags}

\* C13: a start_indexing call sends at most one terminal event and nothing
\* after it, and a call whose thread has ended has sent one.
C13_OneTerminalEvent ==
    /\ Cardinality(TerminalAt) <= 1
    /\ TerminalAt # {} => TerminalAt = {Len(events)}
    /\ (ThreadOver /\ pc # "idle") => TerminalAt # {}

\* C14: every search_images call sends exactly one message, a SearchResults,
\* and it carries the empty list when the search did not return Ok.
C14_OneSearchResults ==
    results.called =>
        /\ Len(results.msgs) = 1
        /\ results.msgs[1].tag = "SearchResults"
        /\ results.kind # "ok" => results.msgs[1].paths = <<>>

RECURSIVE IsSubseq(_, _)
\* a is b with some of its elements left out.
IsSubseq(a, b) ==
    IF a = <<>> THEN TRUE
    ELSE IF b = <<>> THEN FALSE
    ELSE IF Head(a) = Head(b) THEN IsSubseq(Tail(a), Tail(b))
    ELSE IsSubseq(a, Tail(b))

\* C15: a search returns at most `limit` paths, and they are a subsequence of
\* the ranked rows the store returned; a search that never got to the rows
\* returns none.
C15_LimitAndRanking ==
    results.called =>
        /\ results.looped =>
               /\ Len(results.paths) <= results.limit
               /\ IsSubseq(results.paths, results.ranked)
        /\ ~results.looped => results.paths = <<>>

C15_Witness ==
    /\ results.looped
    /\ results.limit = MaxLimit
    /\ Len(results.paths) = results.limit
    /\ Len(results.ranked) > results.limit
    /\ results.paths # SubSeq(results.ranked, 1, results.limit)

\* C16: a search that finds no `images` table in the store returns Ok with
\* the empty list, sends it as its one SearchResults, and leaves the store
\* without the table.
C16_NoTableIsEmptyResult ==
    [][(results' # results /\ results'.listed /\ ~tableExists) =>
           /\ results'.kind = "ok"
           /\ results'.msgs = <<SearchResultsMsg(<<>>)>>
           /\ ~tableExists' /\ rows' = rows]_vars

C16_Witness ==
    /\ results.called /\ results.listed /\ ~results.exists
    /\ \E p \in results.disk : is_image_file(p, results.disk)
    /\ pc = "done"

ModelTags == {"ModelDownloadProgress", "ModelDownloadCompleted", "ModelDownloadFailed"}

\* The model messages of the call, in order.
ModelEvents == SelectSeq(events, LAMBDA m : m.tag \in ModelTags)

\* C17: a call that was given both prewarmed handles never enters model
\* acquisition: no model is loaded, no ModelDownload message is sent, and
\* every embedding uses the supplied image model.
C17_PrewarmFastPath ==
    hist.prewarmed =>
        /\ pc # "download"
        /\ ModelEvents = <<>>
        /\ image_model = "prewarmed"
        /\ hist.embedCalls > 0 => hist.model = "prewarmed"

C17_Witness ==
    /\ hist.prewarmed /\ pc = "done"
    /\ hist.embedCalls > 1
    /\ LastIs("IndexCompleted")

\* C18: when the acquisition succeeded, the call's first three messages are
\* ModelDownloadProgress(1,2), ModelDownloadProgress(2,2),
\* ModelDownloadCompleted; no other model message is sent, so every indexing
\* message comes after them.
C18_AcquisitionOrder ==
    image_model = "loaded" =>
        /\ Len(events) >= 3
        /\ SubSeq(events, 1, 3) = <<ModelProgress(1), ModelProgress(2),
                                    Msg("ModelDownloadCompleted", 0, 0, NoLabel)>>
        /\ Len(ModelEvents) = 3
        /\ IndexEvents = SubSeq(events, 4, Len(events))

C18_Witness ==
    /\ image_model = "loaded" /\ pc = "done"
    /\ Len(IndexEvents) >= 3

\* A ModelDownloadFailed is among the messages of the call.
AcquisitionFailed == \E i \in 1..Len(events) : events[i].tag = "ModelDownloadFailed"

\* C19: a failed acquisition ends the call: ModelDownloadFailed is sent once
\* and last, ModelDownloadCompleted and the indexing messages are not sent,
\* run_indexing is not entered and no row is written.
C19_AcquisitionFailureTerminal ==
    AcquisitionFailed =>
        /\ pc = "done"
        /\ events[Len(events)].tag = "ModelDownloadFailed"
        /\ Cardinality({i \in 1..Len(events) :
                            events[i].tag = "ModelDownloadFailed"}) = 1
        /\ \A i \in 1..Len(events) : events[i].tag # "ModelDownloadCompleted"
        /\ IndexEvents = <<>>
        /\ ~hist.scanned /\ hist.appended = 0 /\ hist.embedCalls = 0
        /\ image_model = "none"

C19_Witness ==
    /\ AcquisitionFailed
    /\ Len(events) = 3
    /\ rows # <<>>

(* ----------------------------- C20 ------------------------------------ *)
\* The regular files anywhere under config.screenshot_dir whose extension is
\* one of IMAGE_EXTENSIONS when letter case is ignored.
ImagesUnderRoot(d) == {p \in d : ToAsciiLower(p.ext) \in IMAGE_EXTENSIONS}

\* The paths the scan of this run loaded from the store.
LoadedAtScan == {PathBufFrom(s) : s \in RowPaths(hist.rows0)}

\* C20: the worklist of a scan holds exactly the image files anywhere under
\* the screenshot directory, extension compared without regard to case;
\* with force_all = false the paths loaded from the store are left out and
\* with force_all = true none is; no file is in the worklist twice.
C20_ScannerWorklist ==
    (hist.scanned /\ ~fsChanged) =>
        /\ Range(files) =
               ImagesUnderRoot(disk) \ (IF force_all THEN {} ELSE LoadedAtScan)
        /\ Cardinality(Range(files)) = Len(files)

\* A scan that is not forced, over a store with rows, whose worklist holds
\* the file of the subdirectory, with an upper-case extension.
C20_Witness ==
    /\ hist.scanned /\ ~fsChanged /\ ~force_all
    /\ LoadedAtScan \cap ImagesUnderRoot(disk) # {}
    /\ \E p \in Range(files) : ParentOf(p) = SubDir /\ p.ext = "JPG"
    /\ TextFile \in disk

(* ----------------------------- C21 ------------------------------------ *)
\* C21: a read failure on a subdirectory does not fail the scan: the
\* subdirectory is skipped, the qualifying files of every other directory are
\* in the worklist, and the run does not end with IndexFailed.
C21_SubdirReadFailureSkipped ==
    hist.readErr =>
        /\ \A i \in 1..Len(events) : events[i].tag # "IndexFailed"
        /\ hist.scanned
        /\ ~fsChanged =>
               {p \in ImagesUnderRoot(disk) : ParentOf(p) # SubDir}
                   \ (IF force_all THEN {} ELSE LoadedAtScan) \subseteq Range(files)

(* ----------------------------- C22 ------------------------------------ *)
\* The call of open_or_create_db inside the last get_indexed_count left the
\* store as it found it.
OpenKeptStore == tableExists = counted.exists /\ rows = counted.rows

\* C22: open_or_create_db removes the store only on a call whose own
\* connection attempt failed; a call whose attempt succeeds leaves every
\* row in place; a call whose attempt failed returns a fresh empty store (no
\* `images` table, count 0) or an error.
C22_RemovesOnlyOnFailedConnect ==
    counted.called =>
        /\ ~OpenKeptStore => counted.failed
        /\ ~counted.failed => OpenKeptStore
        /\ counted.failed =>
               \/ counted.kind = "err"
               \/ /\ counted.kind = "ok" /\ counted.count = 0
                  /\ ~tableExists /\ rows = <<>>

\* A connection that fails over a store with rows, which is recreated.
C22_Witness ==
    /\ counted.called /\ counted.failed /\ counted.kind = "ok"
    /\ counted.rows # <<>> /\ rows = <<>>

(* ----------------------------- C26 ------------------------------------ *)
\* C26 as stated: get_indexed_count returns 0 when the table does not exist
\* and the number of rows otherwise, and never creates the table or changes
\* a row.
C26_Original ==
    counted.called =>
        /\ counted.kind = "ok" =>
               counted.count = (IF counted.exists THEN Len(counted.rows) ELSE 0)
        /\ tableExists = counted.exists
        /\ rows = counted.rows

\* C26: get_indexed_count returns 0 when the store it opened has no table and
\* the number of its rows otherwise; it never creates the table, and it
\* changes rows only when its connection attempt failed, the store then
\* being removed.
C26_CountOfOpenedStore ==
    counted.called =>
        /\ counted.kind = "ok" =>
               counted.count = (IF tableExists THEN Len(rows) ELSE 0)
        /\ (counted.fault = "none" /\ db_path = "utf8") => counted.kind = "ok"
        /\ tableExists => counted.exists
        /\ ~counted.failed => rows = counted.rows
        /\ counted.failed =>
               \/ rows = <<>> /\ ~tableExists
               \/ counted.kind = "err" /\ rows = counted.rows

\* A count of a store with rows.
C26_Witness ==
    /\ counted.called /\ counted.kind = "ok" /\ ~counted.failed
    /\ counted.count = MaxFiles

(* ----------------------------- C23 ------------------------------------ *)
\* C23: remove_from_index(p) is a successful no-op, the store unchanged and
\* no error reported, when the `images` table does not exist and when it
\* exists but holds no row with file_path = p (no call of the store failing).
C23_NoOpRemoval ==
    (removal.called /\ ~removal.faulted /\ (~removal.exists \/ ~removal.present)) =>
        removal.kind = "ok" /\ removal.kept

(* ----------------------------- C24 ------------------------------------ *)
\* C24 as stated: remove_from_index sends no message whether the delete
\* succeeds or fails, and a failed delete changes no row other than rows with
\* the given path.
C24_Original ==
    removal.called =>
        /\ ~removal.sent
        /\ removal.kind = "err" => removal.othersKept

\* C24: remove_from_index sends no message whether the delete succeeds or
\* fails, and a failed delete changes no row other than rows with the given
\* path unless the call's own connection attempt failed and the store was
\* removed with every row.
C24_NothingSurfaced ==
    removal.called =>
        /\ ~removal.sent
        /\ (removal.kind = "err" /\ ~removal.healed) => removal.othersKept
        /\ removal.healed => rows = <<>> /\ ~tableExists

\* A delete that fails over a table that holds a row with the given path.
C24_Witness ==
    /\ removal.called /\ removal.kind = "err" /\ ~removal.healed
    /\ removal.exists /\ removal.present /\ Len(rows) > 1

(* ----------------------------- C30 ------------------------------------ *)
\* C30 as stated: the rows of the store are the same before and after any
\* search_images call, whatever it returns.
C30_Original == results.called => results.kept

\* C30: the rows of the store are the same before and after any search_images
\* call, whatever it returns, unless the call's own connection attempt
\* failed and the store was removed; a search never repairs a stale row.
C30_SearchKeepsRows ==
    results.called =>
        /\ results.kept \/ results.healed
        /\ results.healed => rows = <<>> /\ ~tableExists

\* A search over a store with a row whose file is gone: the row is left out
\* of the result and stays in the store.
C30_Witness ==
    /\ results.called /\ results.kept /\ results.looped
    /\ \E i \in 1..Len(rows) : PathBufFrom(rows[i].file_path) \notin results.disk
    /\ results.paths # <<>>

(* ----------------------------- C25 ------------------------------------ *)
\* C25: a successful insert of a batch creates the `images` table with the
\* batch as its first rows when the table does not exist and appends
\* otherwise: afterwards every record of the batch is in the table and every
\* row that was there before is still there, unchanged.
C25_InsertCreatesOrAppends ==
    (hist.batch.done /\ hist.batch.inserted # <<>> /\ ~hist.lost) =>
        LET before == hist.batch.before
            batch == hist.batch.inserted
        IN /\ tableExists
           /\ Len(rows) = Len(before) + Len(batch)
           /\ SubSeq(rows, 1, Len(before)) = before
           /\ SubSeq(rows, Len(before) + 1, Len(rows)) = batch
           /\ ~hist.batch.existed => rows = batch

\* An insert into a table that holds rows of an earlier run and of an
\* earlier batch of this run.
C25_Witness ==
    /\ hist.batch.done /\ hist.batch.inserted # <<>> /\ ~hist.lost
    /\ hist.batch.existed
    /\ hist.rows0 # <<>>
    /\ Len(hist.batch.before) > Len(hist.rows0)

(* ----------------------------- C27 ------------------------------------ *)
\* The chunks before the one the loop is at that held a Unicode path, in
\* worklist order.
DoneChunks ==
    SelectSeq([j \in 1..chunk_idx |-> j - 1],
              LAMBDA j : FilterMapToStr(Chunk(files, batch_size(cpu_mode), j)) # <<>>)

ProgressEvents == SelectSeq(events, LAMBDA m : m.tag = "IndexProgress")

\* C27: the batches of a run are processed one after the other in worklist
\* order: when the embedding call of a batch starts, every earlier batch has
\* its rows inserted and its IndexProgress emitted, and no other embedding
\* call or insert of the run is under way.
C27_BatchesSequential ==
    (hist.scanned /\ pc \in {"embed", "insert"}) =>
        /\ Len(ProgressEvents) = Len(DoneChunks)
        /\ \A i \in 1..Len(DoneChunks) :
               ProgressEvents[i].label =
                   FileNameLabel(Chunk(files, batch_size(cpu_mode), DoneChunks[i])[1])
        /\ hist.embedCalls = Len(DoneChunks) + (IF pc = "insert" THEN 1 ELSE 0)
        /\ pc = "embed" => (DoneChunks # <<>> => hist.batch.done) /\ embeddings = <<>>
        /\ pc = "insert" =>
               /\ ~hist.batch.done
               /\ hist.batch.requested = FilterMapToStr(CurChunk)
        /\ ~hist.lost => Len(rows) = Len(hist.rows0) + hist.appended

\* The third batch of a run is about to be embedded.
C27_Witness ==
    /\ hist.scanned /\ pc = "embed" /\ chunk_idx = 2
    /\ Len(ProgressEvents) = 2 /\ hist.batch.done

\* The threads of a kind that are inside embed with instance i.
Embedding(kind, i) ==
    {t \in kind : handles.task[t].pc = "embed" /\ handles.task[t].model = i}

\* The threads of a kind that wait for the guard of instance i.
Waiting(kind, i) ==
    {t \in kind : handles.task[t].pc = "lock" /\ handles.task[t].model = i}

\* C28: at most one embed call runs at a time on a model handle, so the
\* indexing runs that share an image handle embed one after the other; the
\* lock of a text model is held by a search only and the lock of an image
\* model by an indexing run only, so a search that waits for its text model
\* waits for another search, never for a run: when no search embeds with
\* that model, the search can take the guard whatever the image locks are.
C28_LocksPerModel ==
    \A i \in Instances :
        /\ Cardinality(Embedding(Runs, i)) <= 1
        /\ Cardinality(Embedding(Searches, i)) <= 1
        /\ handles.imageLock[i] \in Runs \cup {"free"}
        /\ handles.textLock[i] \in Searches \cup {"free"}
        /\ handles.imageLock[i] # "free" => Embedding(Runs, i) = {handles.imageLock[i]}
        /\ handles.textLock[i] # "free" => Embedding(Searches, i) = {handles.textLock[i]}
        /\ \A t \in Waiting(Searches, i) :
               Embedding(Searches, i) = {} => ENABLED search_lock(t)

\* Two runs share the prewarmed image handle: one embeds, the other waits for
\* the guard, and a search embeds its query meanwhile.
C28_Witness ==
    \E i, j \in Instances :
        /\ Embedding(Runs, i) # {}
        /\ Waiting(Runs, i) # {}
        /\ Embedding(Searches, j) # {}

\* C29: at most one image model and at most one text model are ever loaded in
\* a process, and every indexing run and every search uses that instance.
C29_OneInstancePerModel ==
    /\ handles.images <= 1
    /\ handles.texts <= 1
    /\ \A t, u \in Runs :
           (handles.task[t].model # 0 /\ handles.task[u].model # 0)
               => handles.task[t].model = handles.task[u].model
    /\ \A t, u \in Searches :
           (handles.task[t].model # 0 /\ handles.task[u].model # 0)
               => handles.task[t].model = handles.task[u].model

\* The indexing threads whose call was given exactly one prewarmed handle.
PartlySupplied ==
    {t \in Runs : handles.task[t].supplied \in {"vision", "text"}}

\* C34: a start_indexing call that is given one prewarmed handle only (the
\* vision model without the text model, or the reverse) goes through the
\* whole acquisition: it starts without a model, a successful download_models
\* sends ModelDownloadProgress(1, 2), ModelDownloadProgress(2, 2) and
\* ModelDownloadCompleted and the run embeds with the instance it loaded,
\* never with the supplied handle; a failed one ends with ModelDownloadFailed
\* and no model.
C34_PartialHandlesIgnored ==
    \A t \in PartlySupplied :
        LET task == handles.task[t]
        IN /\ task.pc = "download" => task.model = 0 /\ task.msgs = <<>>
           /\ task.pc \in {"lock", "embed"} => task.model # 0
           /\ task.model # 0 =>
                  /\ task.msgs = DownloadMsgs("ok")
                  /\ task.model # handles.vision
                  /\ task.model <= handles.images
           /\ (task.pc = "over" /\ task.model = 0) =>
                  task.msgs \in {DownloadMsgs("vision"), DownloadMsgs("text")}

\* A run that was given the vision handle alone (the text model failed to
\* prewarm, or was not yet loaded) embeds with a model of its own.
C34_Witness ==
    \E t \in Runs :
        /\ handles.task[t].supplied = "vision"
        /\ handles.task[t].pc = "embed"
        /\ handles.vision # 0
        /\ handles.task[t].model # handles.vision

\* C36: in every state of a run 0 <= indexed_count <= total; every
\* IndexProgress(current, total, _) has current <= total, and the n of
\* IndexCompleted(n) is at most the total IndexStarted announced (0 when the
\* worklist was empty and no IndexStarted was sent).
C36_CountWithinTotal ==
    /\ 0 <= indexed_count /\ indexed_count <= Len(files)
    /\ \A i \in 1..Len(events) :
           /\ events[i].tag = "IndexProgress" =>
                  /\ 0 <= events[i].cur /\ events[i].cur <= events[i].total
                  /\ events[i].total = Len(files)
           /\ events[i].tag = "IndexStarted" => events[i].total = Len(files)
           /\ events[i].tag = "IndexCompleted" =>
                  /\ 0 <= events[i].cur /\ events[i].cur <= Len(files)
                  /\ \A j \in 1..Len(events) :
                         events[j].tag = "IndexStarted" =>
                             events[i].cur <= events[j].total
                  /\ (\A j \in 1..Len(events) : events[j].tag # "IndexStarted")
                         => events[i].cur = 0

\* A run over the largest worklist counted every file: IndexCompleted(total)
\* after IndexStarted(total), the last IndexProgress at current = total.
C36_Witness ==
    /\ pc = "done" /\ LastIs("IndexCompleted")
    /\ Len(files) = MaxFiles /\ indexed_count = Len(files)
    /\ \E i \in 1..Len(events) :
           /\ events[i].tag = "IndexProgress" /\ events[i].cur = events[i].total
    /\ \E i \in 1..Len(events) :
           /\ events[i].tag = "IndexStarted" /\ events[i].total = MaxFiles

\* Every batch of the run that is over succeeded: the run completed, no
\* embedding call and no insert failed, and no batch was skipped for want of
\* a Unicode path.
EveryBatchSucceeded ==
    /\ pc = "done" /\ hist.scanned /\ LastIs("IndexCompleted")
    /\ Len(files) > 0
    /\ ~hist.embedFail /\ ~hist.insertErr
    /\ \A j \in 0..(NumChunks(files, batch_size(cpu_mode)) - 1) :
           FilterMapToStr(Chunk(files, batch_size(cpu_mode), j)) # <<>>

\* C35: in a run where every batch succeeds the worklist is cut into
\* ceil(total / batch_size(mode)) contiguous batches, the embedding model is
\* called once per batch and is passed every file of the worklist, and one
\* IndexProgress is sent per batch, labelled with the file name of the
\* batch's first file.
C35_BatchPartition ==
    EveryBatchSucceeded =>
        /\ hist.embedCalls = NumChunks(files, batch_size(cpu_mode))
        /\ ~hist.dropped
        /\ Len(ProgressEvents) = NumChunks(files, batch_size(cpu_mode))
        /\ \A i \in 1..Len(ProgressEvents) :
               ProgressEvents[i].label =
                   FileNameLabel(Chunk(files, batch_size(cpu_mode), i - 1)[1])

\* The batch sizes and delays of CpuMode's documentation.
DocBatchSize(mode) == IF mode = "Normal" THEN 32 ELSE 256

DocDelayMs(mode) == IF mode = "Normal" THEN 50 ELSE 0

\* C37: a run cuts its worklist into batches of 32 files in Normal mode and
\* of 256 files in Fast mode, and sleeps 50 ms (Normal) or not at all (Fast)
\* before every batch but the first.
C37_DocumentedModes ==
    /\ pc \in {"embed", "insert"} =>
           Len(CurChunk) = Min(DocBatchSize(cpu_mode),
                               Len(files) - chunk_idx * DocBatchSize(cpu_mode))
    /\ (pc = "embed" /\ chunk_idx > 0) =>
           delay_ms(cpu_mode) = DocDelayMs(cpu_mode)

\* C33: every search the application starts for a non-empty query produces
\* a SearchResults event, also when the text model has to be loaded for the
\* search and the load fails: a search whose threads have ended has sent it.
C33_SearchAnswered ==
    \A t \in Searches :
        handles.task[t].pc = "over" =>
            \E i \in 1..Len(handles.task[t].msgs) :
                handles.task[t].msgs[i].tag = "SearchResults"

\* C32: the application's auto-indexing never has two indexing runs active
\* at once: add_screenshot starts a run only when no earlier run is still
\* unfinished.
C32_OneAutoRun == Cardinality(ActiveRuns) <= 1

\* The rows of the store that name path p.
RowsOf(p) == {i \in 1..Len(rows) : PathBufFrom(rows[i].file_path) = p}

\* C31: two start_indexing(force_all = false) runs that execute concurrently
\* on one store and corpus insert every file that was not indexed exactly
\* once: no file_path is in two rows, neither run fails because the other
\* created the `images` table first, and when both are over every image of
\* the corpus has its row.
C31_ConcurrentRunsDisjoint ==
    /\ \A p \in disk : Cardinality(RowsOf(p)) <= 1
    /\ \A t \in Runs : ~racers[t].failed
    /\ (\A t \in Runs : racers[t].pc = "done") =>
           \A p \in ImagesUnderRoot(disk) : Cardinality(RowsOf(p)) = 1

====
